---- MODULE Spec2Model ----
(***************************************************************************)
(* PrimeFactorSieve (src/src/prime_factor_sieve.rs): the table of smallest *)
(* prime factors built by new(), and the queries derived from it.          *)
(*                                                                         *)
(* new() and the prime_factors() cursor are modelled statement by          *)
(* statement; is_prime, primes, factors_count, factors and coprime are     *)
(* single actions that evaluate the query on the finished table.           *)
(* All numbers of the model stay far below 2^32, so the u32/usize casts of *)
(* the source keep their values and no product overflows.                  *)
(***************************************************************************)
EXTENDS Integers, Sequences, FiniteSets

\* Largest bound N handed to new().
MaxN == 36
\* Queries are called with arguments 0 .. N + MaxOver (N + 1 and beyond are
\* outside the table's range).
MaxOver == 2

VARIABLES
  debug,     \* cfg!(debug_assertions) of the build
  N,         \* the argument n of new()
  v,         \* new()'s vector v, afterwards self.smallest_prime_factors
  i,         \* new(): outer loop variable
  j,         \* new(): inner loop variable
  pc,        \* control point
  call,      \* the query being / last evaluated: [op, a, b]
  n,         \* prime_factors(): the closure's captured n (running remainder)
  p,         \* prime_factors(): closure local p
  count,     \* prime_factors(): closure local count
  yielded,   \* prime_factors(): items the cursor has yielded so far
  reads,     \* table reads of the current query: <<site, index>>
  ret,       \* the items of the returned iterator, collected
  ret_bool,  \* the returned bool (is_prime, coprime)
  ret_u32,   \* the returned u32 (factors_count)
  fault      \* how the query ended abnormally, or "none"

vars == <<debug, N, v, i, j, pc, call, n, p, count, yielded, reads, ret,
          ret_bool, ret_u32, fault>>

NoCall == [op |-> "none", a |-> 0, b |-> 0]

\* Arguments a caller may pass to a query of a sieve built with bound N.
Inputs == 0 .. (N + MaxOver)

\* self.smallest_prime_factors.len()
TableLen == N + 1

\* Rust's checked indexing: an index is in bounds iff it is < len.
InBounds(idx) == idx >= 0 /\ idx < TableLen

----------------------------------------------------------------------------
(* new(n): lines 8-24 *)

\* let mut v = vec![0; n + 1]
ZeroVec(len) == [k \in 0 .. (len - 1) |-> 0]

\* Faulty variant: the store is not guarded by v[j] == 0.
InnerStoreUnguarded(tbl, jj, ii) == [tbl EXCEPT ![jj] = ii]

\* if v[j] == 0 { v[j] = i as u32; }
\* (i <= n, which came from a u32, so the cast keeps the value)
InnerStore(tbl, jj, ii) ==
  IF tbl[jj] = 0 THEN [tbl EXCEPT ![jj] = ii] ELSE tbl

Init ==
  /\ debug \in BOOLEAN
  /\ N \in 0 .. MaxN
  /\ v = ZeroVec(N + 1)
  /\ i = 2
  /\ j = 0
  /\ pc = "for_i"
  /\ call = NoCall
  /\ n = 0
  /\ p = 0
  /\ count = 0
  /\ yielded = <<>>
  /\ reads = {}
  /\ ret = <<>>
  /\ ret_bool = FALSE
  /\ ret_u32 = 0
  /\ fault = "none"

QueryVars == <<call, n, p, count, yielded, reads, ret, ret_bool, ret_u32, fault>>

\* for i in 2..=n { if v[i] != 0 { continue; } ...
NewContinue ==
  /\ pc = "for_i"
  /\ i <= N
  /\ v[i] # 0
  /\ i' = i + 1
  /\ UNCHANGED <<debug, N, v, j, pc, QueryVars>>

\* ... for j in (i..=n).step_by(i) {   (i is prime: v[i] == 0)
NewEnterInner ==
  /\ pc = "for_i"
  /\ i <= N
  /\ v[i] = 0
  /\ j' = i
  /\ pc' = "for_j"
  /\ UNCHANGED <<debug, N, v, i, QueryVars>>

\* one iteration of the inner loop
NewInnerStep ==
  /\ pc = "for_j"
  /\ j <= N
  /\ v' = InnerStore(v, j, i)
  /\ j' = j + i
  /\ UNCHANGED <<debug, N, i, pc, QueryVars>>

\* the inner range is exhausted: next i
NewInnerDone ==
  /\ pc = "for_j"
  /\ j > N
  /\ i' = i + 1
  /\ pc' = "for_i"
  /\ UNCHANGED <<debug, N, v, j, QueryVars>>

\* the outer range is exhausted: Self { smallest_prime_factors: v }
NewReturn ==
  /\ pc = "for_i"
  /\ i > N
  /\ pc' = "ready"
  /\ UNCHANGED <<debug, N, v, i, j, QueryVars>>

New == NewContinue \/ NewEnterInner \/ NewInnerStep \/ NewInnerDone \/ NewReturn

----------------------------------------------------------------------------
(* is_prime(n): lines 26-29 *)

\* Faulty variant: any set entry counts as prime.
IsPrimeTestNonZero(x) == v[x] # 0

\* self.smallest_prime_factors[n as usize] == n
IsPrimeTest(x) == v[x] = x

\* debug_assert!(n >= 2)
IsPrimeAssert(x) == x >= 2

IsPrime(x) ==
  /\ pc = "ready"
  /\ call = NoCall
  /\ call' = [op |-> "is_prime", a |-> x, b |-> 0]
  /\ IF debug /\ ~IsPrimeAssert(x)
       THEN /\ fault' = "debug_assert"
            /\ reads' = {}
            /\ ret_bool' = FALSE
       ELSE IF ~InBounds(x)
         THEN /\ fault' = "index_oob"
              /\ reads' = {}
              /\ ret_bool' = FALSE
         ELSE /\ fault' = "none"
              /\ reads' = {<<"is_prime", x>>}
              /\ ret_bool' = IsPrimeTest(x)
  /\ UNCHANGED <<ret, ret_u32>>
  /\ yielded' = <<>>
  /\ n' = 0
  /\ p' = 0
  /\ count' = 0
  /\ UNCHANGED <<debug, N, v, i, j, pc>>

----------------------------------------------------------------------------
(* primes(): lines 32-39 *)

\* .skip(2)
PrimesSkip == 2

\* .filter_map(|(p, &spf)| (spf == p as u32).then_some(p as u32)) over
\* .iter().enumerate(), from index `from` to the end of the table
RECURSIVE PrimesScan(_)
PrimesScan(from) ==
  IF from >= TableLen THEN <<>>
  ELSE (IF v[from] = from THEN <<from>> ELSE <<>>) \o PrimesScan(from + 1)

\* Faulty variant: the two sentinel entries are not skipped.
PrimesIterNoSkip == PrimesScan(0)

\* the whole iterator chain of lines 33-38, collected
PrimesIter == PrimesScan(PrimesSkip)

Primes ==
  /\ pc = "ready"
  /\ call = NoCall
  /\ call' = [op |-> "primes", a |-> 0, b |-> 0]
  /\ ret' = PrimesIter
  /\ UNCHANGED <<ret_bool, ret_u32>>
  /\ fault' = "none"
  /\ reads' = {}
  /\ yielded' = <<>>
  /\ n' = 0
  /\ p' = 0
  /\ count' = 0
  /\ UNCHANGED <<debug, N, v, i, j, pc>>

----------------------------------------------------------------------------
(* prime_factors(n): lines 42-60, the cursor driven one statement at a time *)

\* debug_assert_ne!(n, 0)
AssertNonZero(x) == x # 0

\* debug_assert!(n <= self.smallest_prime_factors.len())
AssertInTable(x) == x <= TableLen

\* Both assertions of prime_factors hold (or the build has none).
PrimeFactorsAsserts(x) == debug => (AssertNonZero(x) /\ AssertInTable(x))

\* Faulty variant: the cursor stops at 0 instead of 1.
HasNextZero(m) == m # 0

\* (n != 1).then(...)
HasNext(m) == m # 1

\* while self.smallest_prime_factors[n] == p
WhileCond(m, q) == v[m] = q

\* let mut count = 1
CountInit == 1

\* Faulty variant: the loop forgets to count.
CountStepNone(c) == c

\* count += 1
CountStep(c) == c + 1

\* The call itself: the assertions, then the closure captures n.
PrimeFactors(x) ==
  /\ pc = "ready"
  /\ call = NoCall
  /\ call = NoCall
  /\ call' = [op |-> "prime_factors", a |-> x, b |-> 0]
  /\ reads' = {}
  /\ yielded' = <<>>
  /\ ret' = <<>>
  /\ UNCHANGED <<ret_bool, ret_u32>>
  /\ p' = 0
  /\ count' = 0
  /\ IF PrimeFactorsAsserts(x)
       THEN /\ n' = x
            /\ fault' = "none"
            /\ pc' = "cursor"
       ELSE /\ n' = 0
            /\ fault' = "debug_assert"
            /\ pc' = "ready"
  /\ UNCHANGED <<debug, N, v, i, j>>

\* next() on an exhausted cursor: None
CursorNone ==
  /\ pc = "cursor"
  /\ ~HasNext(n)
  /\ ret' = yielded
  /\ pc' = "ready"
  /\ UNCHANGED <<debug, N, v, i, j, call, n, p, count, yielded, reads, fault,
                 ret_bool, ret_u32>>

\* next(): let p = table[n]; let mut count = 1; n /= p as usize;
CursorSome ==
  /\ pc = "cursor"
  /\ HasNext(n)
  /\ IF ~InBounds(n)
       THEN /\ fault' = "index_oob"
            /\ pc' = "ready"
            /\ UNCHANGED <<n, p, count, reads>>
       ELSE /\ reads' = reads \cup {<<"p", n>>}
            /\ p' = v[n]
            /\ count' = CountInit
            /\ IF v[n] = 0
                 THEN /\ fault' = "div_zero"
                      /\ pc' = "ready"
                      /\ n' = n
                 ELSE /\ n' = n \div v[n]
                      /\ pc' = "while"
                      /\ fault' = fault
  /\ UNCHANGED <<debug, N, v, i, j, call, yielded, ret, ret_bool, ret_u32>>

\* Faulty variant: the loop counts but does not divide.
WhileDivideKeepsN ==
  /\ pc = "while"
  /\ InBounds(n)
  /\ WhileCond(n, p)
  /\ reads' = reads \cup {<<"while", n>>}
  /\ count' = CountStep(count)
  /\ UNCHANGED <<debug, N, v, i, j, pc, call, n, p, yielded, ret, ret_bool,
                 ret_u32, fault>>

\* the loop test holds: n /= p as usize; count += 1;
\* (n has only shrunk since the read of line 49, so the index is in bounds)
WhileDivide ==
  /\ pc = "while"
  /\ InBounds(n)
  /\ WhileCond(n, p)
  /\ reads' = reads \cup {<<"while", n>>}
  /\ n' = n \div p
  /\ count' = CountStep(count)
  /\ UNCHANGED <<debug, N, v, i, j, pc, call, p, yielded, ret, ret_bool,
                 ret_u32, fault>>

\* the loop test fails: the closure returns Some((p, count))
WhileExit ==
  /\ pc = "while"
  /\ InBounds(n)
  /\ ~WhileCond(n, p)
  /\ reads' = reads \cup {<<"while", n>>}
  /\ yielded' = Append(yielded, <<p, count>>)
  /\ pc' = "cursor"
  /\ UNCHANGED <<debug, N, v, i, j, call, n, p, count, ret, ret_bool, ret_u32,
                 fault>>

Cursor == CursorNone \/ CursorSome \/ WhileDivide \/ WhileExit

----------------------------------------------------------------------------
(* The same closure as a function of the cursor's state, for the queries    *)
(* that drive cursors internally (factors_count, factors, coprime). A       *)
(* cursor's whole state is its captured n, so clone() copies that number.   *)

\* lines 52-55: the inner loop, from remainder m with prime q and count c
RECURSIVE DivideOut(_, _, _, _)
DivideOut(m, q, c, rd) ==
  LET rd2 == rd \cup {<<"while", m>>}
  IN  IF WhileCond(m, q)
        THEN DivideOut(m \div q, q, CountStep(c), rd2)
        ELSE [n |-> m, count |-> c, reads |-> rd2]

\* lines 47-59: one next() of a cursor whose captured n is m
ClosureCall(m) ==
  IF ~HasNext(m)
    THEN [fault |-> "none", some |-> FALSE, p |-> 0, count |-> 0, n |-> m,
          reads |-> {}]
  ELSE IF ~InBounds(m)
    THEN [fault |-> "index_oob", some |-> FALSE, p |-> 0, count |-> 0, n |-> m,
          reads |-> {}]
  ELSE IF v[m] = 0
    THEN [fault |-> "div_zero", some |-> FALSE, p |-> 0, count |-> 0, n |-> m,
          reads |-> {<<"p", m>>}]
  ELSE LET d == DivideOut(m \div v[m], v[m], CountInit, {<<"p", m>>})
       IN  [fault |-> "none", some |-> TRUE, p |-> v[m], count |-> d.count,
            n |-> d.n, reads |-> d.reads]

\* Driving a cursor to exhaustion (what map/product/collect do).
RECURSIVE Collect(_)
Collect(m) ==
  LET nx == ClosureCall(m)
  IN  IF nx.fault # "none" \/ ~nx.some
        THEN [fault |-> nx.fault, items |-> <<>>, reads |-> nx.reads]
        ELSE LET rest == Collect(nx.n)
             IN  [fault |-> rest.fault,
                  items |-> <<<<nx.p, nx.count>>>> \o rest.items,
                  reads |-> nx.reads \cup rest.reads]

----------------------------------------------------------------------------
(* factors_count(n): lines 63-65 *)

\* Faulty variant: the exponent itself instead of exponent + 1.
PowChoicesOffByOne(pow) == pow

\* .map(|(_, pow)| pow + 1)
PowChoices(pow) == pow + 1

\* .product()
RECURSIVE Product(_)
Product(items) ==
  IF items = <<>> THEN 1
  ELSE PowChoices(items[1][2]) * Product(Tail(items))

FactorsCount(x) ==
  /\ pc = "ready"
  /\ call = NoCall
  /\ call' = [op |-> "factors_count", a |-> x, b |-> 0]
  /\ IF ~PrimeFactorsAsserts(x)
       THEN /\ fault' = "debug_assert"
            /\ reads' = {}
            /\ ret_u32' = 0
       ELSE LET c == Collect(x)
            IN  /\ fault' = c.fault
                /\ reads' = c.reads
                /\ ret_u32' = IF c.fault = "none" THEN Product(c.items) ELSE 0
  /\ UNCHANGED <<ret, ret_bool>>
  /\ yielded' = <<>>
  /\ n' = 0
  /\ p' = 0
  /\ count' = 0
  /\ UNCHANGED <<debug, N, v, i, j, pc>>

----------------------------------------------------------------------------
(* factors_generator / factors(n): lines 67-88 *)

\* Faulty variant: one power too many.
SuccessorsMoreInclusive(pow, m) == pow <= m

\* (pow < m).then(...)
SuccessorsMore(pow, m) == pow < m

\* std::iter::successors(Some((1, 0)), |&(n, pow)| (pow < m).then(|| (n * p, pow + 1)))
\* from the item (nn, pow) on
RECURSIVE Successors(_, _, _, _)
Successors(nn, pow, q, m) ==
  <<<<nn, pow>>>> \o
    (IF SuccessorsMore(pow, m) THEN Successors(nn * q, pow + 1, q, m) ELSE <<>>)

RECURSIVE FactorsGenerator(_, _)
RECURSIVE FlatMap(_, _, _)

\* .flat_map(move |(p, _)| self.factors_generator(p * multiplier, prime_factors.clone()))
\* over the items succ; m is the state of the cursor that is cloned
FlatMap(succ, multiplier, m) ==
  IF succ = <<>>
    THEN [fault |-> "none", out |-> <<>>, reads |-> {}]
    ELSE LET first == FactorsGenerator(succ[1][1] * multiplier, m)
         IN  IF first.fault # "none"
               THEN first
               ELSE LET rest == FlatMap(Tail(succ), multiplier, m)
                    IN  [fault |-> rest.fault,
                         out |-> first.out \o rest.out,
                         reads |-> first.reads \cup rest.reads]

\* match prime_factors.next() { Some((p, m)) => ..., None => once(multiplier) }
FactorsGenerator(multiplier, m) ==
  LET nx == ClosureCall(m)
  IN  IF nx.fault # "none"
        THEN [fault |-> nx.fault, out |-> <<>>, reads |-> nx.reads]
      ELSE IF ~nx.some
        THEN [fault |-> "none", out |-> <<multiplier>>, reads |-> {}]
      ELSE LET sub == FlatMap(Successors(1, 0, nx.p, nx.count), multiplier, nx.n)
           IN  [fault |-> sub.fault, out |-> sub.out,
                reads |-> nx.reads \cup sub.reads]

\* factors(n), consumed to the end
Factors(x) ==
  /\ pc = "ready"
  /\ call = NoCall
  /\ call' = [op |-> "factors", a |-> x, b |-> 0]
  /\ IF ~PrimeFactorsAsserts(x)
       THEN /\ fault' = "debug_assert"
            /\ reads' = {}
            /\ ret' = <<>>
       ELSE LET g == FactorsGenerator(1, x)
            IN  /\ fault' = g.fault
                /\ reads' = g.reads
                /\ ret' = g.out
  /\ UNCHANGED <<ret_bool, ret_u32>>
  /\ yielded' = <<>>
  /\ n' = 0
  /\ p' = 0
  /\ count' = 0
  /\ UNCHANGED <<debug, N, v, i, j, pc>>

----------------------------------------------------------------------------
(* coprime(a, b): lines 90-109 *)

\* Faulty variant: the cursor with the larger prime is advanced.
AdvanceASwapped(ap, bp) == ap > bp

\* else if ap < bp
AdvanceA(ap, bp) == ap < bp

\* while let Some((ap, bp)) = ps { ... }; am, bm are the states of a_i, b_i
RECURSIVE CoprimeLoop(_, _, _, _, _)
CoprimeLoop(ap, bp, am, bm, rd) ==
  IF ap = bp
    THEN [fault |-> "none", value |-> FALSE, reads |-> rd]
  ELSE IF AdvanceA(ap, bp)
    THEN LET nx == ClosureCall(am)
         IN  IF nx.fault # "none" \/ ~nx.some
               THEN [fault |-> nx.fault, value |-> TRUE,
                     reads |-> rd \cup nx.reads]
               ELSE CoprimeLoop(nx.p, bp, nx.n, bm, rd \cup nx.reads)
  ELSE LET nx == ClosureCall(bm)
       IN  IF nx.fault # "none" \/ ~nx.some
             THEN [fault |-> nx.fault, value |-> TRUE,
                   reads |-> rd \cup nx.reads]
             ELSE CoprimeLoop(ap, nx.p, am, nx.n, rd \cup nx.reads)

\* lines 93-96: b_i.next() is called only if a_i.next() is Some
CoprimeBody(a, b) ==
  LET na == ClosureCall(a)
  IN  IF na.fault # "none" \/ ~na.some
        THEN [fault |-> na.fault, value |-> TRUE, reads |-> na.reads]
        ELSE LET nb == ClosureCall(b)
             IN  IF nb.fault # "none" \/ ~nb.some
                   THEN [fault |-> nb.fault, value |-> TRUE,
                         reads |-> na.reads \cup nb.reads]
                   ELSE CoprimeLoop(na.p, nb.p, na.n, nb.n,
                                    na.reads \cup nb.reads)

Coprime(a, b) ==
  /\ pc = "ready"
  /\ call = NoCall
  /\ call' = [op |-> "coprime", a |-> a, b |-> b]
  /\ IF ~(PrimeFactorsAsserts(a) /\ PrimeFactorsAsserts(b))
       THEN /\ fault' = "debug_assert"
            /\ reads' = {}
            /\ ret_bool' = FALSE
       ELSE LET c == CoprimeBody(a, b)
            IN  /\ fault' = c.fault
                /\ reads' = c.reads
                /\ ret_bool' = (c.fault = "none" /\ c.value)
  /\ UNCHANGED <<ret, ret_u32>>
  /\ yielded' = <<>>
  /\ n' = 0
  /\ p' = 0
  /\ count' = 0
  /\ UNCHANGED <<debug, N, v, i, j, pc>>

----------------------------------------------------------------------------
(* Queries take &self and hand back a value or an iterator that borrows the *)
(* sieve; the caller drops it and may query the same sieve again, as the    *)
(* tests do statement after statement.                                      *)
Release ==
  /\ pc = "ready"
  /\ call # NoCall
  /\ call' = NoCall
  /\ n' = 0
  /\ p' = 0
  /\ count' = 0
  /\ yielded' = <<>>
  /\ reads' = {}
  /\ ret' = <<>>
  /\ ret_bool' = FALSE
  /\ ret_u32' = 0
  /\ fault' = "none"
  /\ UNCHANGED <<debug, N, v, i, j, pc>>

----------------------------------------------------------------------------
Next ==
  \/ New
  \/ \E x \in Inputs : IsPrime(x)
  \/ Primes
  \/ \E x \in Inputs : PrimeFactors(x)
  \/ Cursor
  \/ \E x \in Inputs : FactorsCount(x)
  \/ \E x \in Inputs : Factors(x)
  \/ \E a \in Inputs, b \in Inputs : Coprime(a, b)
  \/ Release

Spec == Init /\ [][Next]_vars

\* A cursor that is being consumed is advanced again and again.
FairSpec == Spec /\ WF_vars(Cursor)

----------------------------------------------------------------------------
(* Arithmetic the claims are stated in, independent of the table. *)

IsPrimeNumber(q) == q >= 2 /\ \A d \in 2 .. (q - 1) : q % d # 0

Divisors(m) == {d \in 1 .. m : m % d = 0}

RECURSIVE Pow(_, _)
Pow(b, e) == IF e = 0 THEN 1 ELSE b * Pow(b, e - 1)

\* product of p^m over a sequence of pairs <<p, m>>
RECURSIVE ProductOfPowers(_)
ProductOfPowers(items) ==
  IF items = <<>> THEN 1
  ELSE Pow(items[1][1], items[1][2]) * ProductOfPowers(Tail(items))

Elements(seq) == {seq[k] : k \in 1 .. Len(seq)}

StrictlyIncreasing(seq) == \A k \in 1 .. (Len(seq) - 1) : seq[k] < seq[k + 1]

NoDuplicates(seq) ==
  \A k \in 1 .. Len(seq), l \in 1 .. Len(seq) : k # l => seq[k] # seq[l]

FirstOfEach(items) == [k \in 1 .. Len(items) |-> items[k][1]]

\* new() has returned
Built == pc \notin {"for_i", "for_j"}

\* the argument is in a query's documented range
InRange(x) == x >= 1 /\ x <= N

----------------------------------------------------------------------------
(* C1: when new(N) has returned, every entry table[n], 2 <= n <= N, is the  *)
(* smallest prime factor of n: it is prime, it divides n, and no smaller    *)
(* prime divides n (so no entry is left 0).                                 *)
C1_SmallestPrimeFactors ==
  Built =>
    /\ DOMAIN v = 0 .. N
    /\ \A m \in 2 .. N :
         /\ IsPrimeNumber(v[m])
         /\ m % v[m] = 0
         /\ \A q \in 2 .. (v[m] - 1) : IsPrimeNumber(q) => m % q # 0

C1_Witness == pc = "ready" /\ N >= 15 /\ v[15] = 3 /\ v[13] = 13

(* C2: for 1 <= n <= N the exhausted prime_factors(n) cursor has yielded    *)
(* the canonical factorisation of n: primes, strictly increasing, each with *)
(* multiplicity >= 1, the product of p^m equal to n, nothing for n = 1; the *)
(* cursor driven inside the other queries yields the same sequence.         *)
C2_PrimeFactorsCanonical ==
  (call.op = "prime_factors" /\ InRange(call.a) /\ pc = "ready") =>
    /\ fault = "none"
    /\ ret = yielded
    /\ \A k \in 1 .. Len(ret) : IsPrimeNumber(ret[k][1]) /\ ret[k][2] >= 1
    /\ StrictlyIncreasing(FirstOfEach(ret))
    /\ ProductOfPowers(ret) = call.a
    /\ (call.a = 1 => ret = <<>>)
    /\ Collect(call.a).items = ret

C2_Witness ==
  /\ call.op = "prime_factors"
  /\ pc = "ready"
  /\ call.a = 24
  /\ ret = << <<2, 3>>, <<3, 1>> >>

(* C3: for 1 <= n <= N, factors(n) yields every positive divisor of n       *)
(* exactly once and nothing else.                                           *)
C3_FactorsAreTheDivisors ==
  (call.op = "factors" /\ InRange(call.a)) =>
    /\ fault = "none"
    /\ NoDuplicates(ret)
    /\ Elements(ret) = Divisors(call.a)

C3_Witness ==
  /\ call.op = "factors"
  /\ call.a = 30
  /\ Len(ret) = 8
  /\ ret[1] = 1

(* C4: for 1 <= n <= N, factors_count(n) is the number of elements that     *)
(* factors(n) produces, which is the number of positive divisors of n.      *)
C4_FactorsCount ==
  (call.op = "factors_count" /\ InRange(call.a)) =>
    /\ fault = "none"
    /\ ret_u32 = Len(FactorsGenerator(1, call.a).out)
    /\ ret_u32 = Cardinality(Divisors(call.a))

C4_Witness == call.op = "factors_count" /\ call.a = 24 /\ ret_u32 = 8

(* C5: for 1 <= a, b <= N, coprime(a, b) is true iff gcd(a, b) = 1, iff no  *)
(* prime is yielded by both prime_factors(a) and prime_factors(b).          *)
C5_Coprime ==
  (call.op = "coprime" /\ InRange(call.a) /\ InRange(call.b)) =>
    /\ fault = "none"
    /\ ret_bool = (Divisors(call.a) \cap Divisors(call.b) = {1})
    /\ ret_bool = (Elements(FirstOfEach(Collect(call.a).items))
               \cap Elements(FirstOfEach(Collect(call.b).items)) = {})
    /\ (call.a = 1 => ret_bool)
    /\ (call.a = call.b /\ call.a >= 2 => ~ret_bool)

C5_Witness ==
  /\ call.op = "coprime"
  /\ call.a = 10
  /\ call.b = 15
  /\ fault = "none"
  /\ ~ret_bool

(* C6: for 2 <= n <= N, is_prime(n) is true iff n is prime; table[n] = n    *)
(* holds exactly for the primes of 2..N.                                    *)
C6_IsPrime ==
  /\ Built => \A m \in 2 .. N : (v[m] = m) <=> IsPrimeNumber(m)
  /\ (call.op = "is_prime" /\ call.a >= 2 /\ call.a <= N) =>
       /\ fault = "none"
       /\ ret_bool = IsPrimeNumber(call.a)

C6_Witness ==
  call.op = "is_prime" /\ call.a = 9 /\ N >= 9 /\ fault = "none" /\ ~ret_bool

(* C7: primes() yields exactly the primes of 2..N, each once, in strictly   *)
(* increasing order (nothing for N < 2). The sequence is determined by N    *)
(* alone, so every fresh call yields it again.                              *)
C7_Primes ==
  (call.op = "primes") =>
    /\ fault = "none"
    /\ StrictlyIncreasing(ret)
    /\ Elements(ret) = {q \in 2 .. N : IsPrimeNumber(q)}
    /\ (N < 2 => ret = <<>>)

C7_Witness ==
  /\ call.op = "primes"
  /\ N = 12
  /\ ret = <<2, 3, 5, 7, 11>>

\* an argument outside prime_factors' range [1, N]
OutOfRange(x) == x = 0 \/ x > N

\* the call itself panicked and no table element was read
StoppedAtCall ==
  /\ pc = "ready"
  /\ fault \in {"debug_assert", "index_oob"}
  /\ reads = {}

(* C8 (as claimed): in a build with debug assertions, every out-of-range    *)
(* call is stopped at the call, before any table read: is_prime(n) for n    *)
(* outside [2, N]; prime_factors, factors, factors_count and coprime for an *)
(* argument that is 0 or greater than N, N + 1 included. The panic of a     *)
(* checked index is counted as a detection here, like a failed assertion.   *)
C8_AssertionsCatchEveryViolation ==
  debug =>
    /\ (call.op = "is_prime" /\ (call.a < 2 \/ call.a > N)) => StoppedAtCall
    /\ (call.op \in {"prime_factors", "factors", "factors_count"}
          /\ OutOfRange(call.a)) => StoppedAtCall
    /\ (call.op = "coprime" /\ (OutOfRange(call.a) \/ OutOfRange(call.b))) =>
         StoppedAtCall

\* a prime_factors(n) cursor with 1 <= n <= N
CursorValid == call.op = "prime_factors" /\ InRange(call.a)

\* the remainder stays in [1, N]; k pairs yielded means 2^k <= n
C9_RemainderBounded ==
  CursorValid =>
    /\ fault = "none"
    /\ n >= 1 /\ n <= N
    /\ Pow(2, Len(yielded)) <= call.a
    /\ (pc = "ready" => n = 1)

\* a step that divides (line 51 or line 53) makes the remainder smaller
C9_Division ==
  (CursorValid /\ pc \in {"cursor", "while"} /\ pc' = "while"
     /\ (pc = "while" => count' # count)) =>
       (n' >= 1 /\ n' < n)

(* C9: for 1 <= n <= N the prime_factors(n) cursor terminates: the          *)
(* remainder stays in [1, N], every division makes it strictly smaller, the *)
(* number of pairs yielded is at most log2(n), and a cursor that is         *)
(* consumed leaves every inner loop and reaches remainder 1, where it is    *)
(* exhausted.                                                               *)
C9_CursorTerminates ==
  /\ []C9_RemainderBounded
  /\ [][C9_Division]_vars
  /\ (CursorValid /\ pc \in {"cursor", "while"})
        ~> (CursorValid /\ pc = "ready" /\ n = 1)

C9_Witness ==
  /\ call.op = "prime_factors"
  /\ call.a = 30
  /\ pc = "ready"
  /\ Len(ret) = 3
  /\ n = 1

\* a query called within its documented range
ValidQuery ==
  \/ call.op = "is_prime" /\ call.a >= 2 /\ call.a <= N
  \/ call.op \in {"prime_factors", "factors", "factors_count"} /\ InRange(call.a)
  \/ call.op = "coprime" /\ InRange(call.a) /\ InRange(call.b)

(* C10 (as claimed): a query with valid input reads no table index below 2. *)
C10_SentinelsNeverRead == ValidQuery => \A r \in reads : r[2] >= 2

(* C10 (amended): a query with valid input never reads table[0] and reads   *)
(* no index above N; table[1] is read only by the loop test of line 52,     *)
(* when the remainder has reached 1. is_prime and the read of p (line 49)   *)
(* touch indices >= 2 only.                                                 *)
C10_OnlyLoopTestReadsOne ==
  ValidQuery =>
    /\ fault = "none"
    /\ \A r \in reads :
         /\ r[2] >= 1 /\ r[2] <= N
         /\ (r[2] = 1 => r[1] = "while")

C10_Witness ==
  /\ call.op = "factors"
  /\ call.a = 12
  /\ <<"while", 1>> \in reads
  /\ <<"p", 3>> \in reads

====
